---- MODULE Spec2Model ----
(***************************************************************************)
(* Model of scraping.py: the Image URL Resolver (parse_html_for_image and  *)
(* its extractors), the Path Resolver (convert_to_absolute_path) and the   *)
(* Fetch Orchestrator (get_image_url_from_url).                            *)
(*                                                                         *)
(* Text is modelled as a sequence of text pieces: "https://shop.example/a" *)
(* is <<"https", ":", "//", "shop.example", "/", "a">>.  Substring, prefix *)
(* and suffix tests are tests on contiguous runs of pieces.  Python's None *)
(* is the one-piece text None, which no page or URL contains.              *)
(***************************************************************************)
EXTENDS Integers, Sequences, FiniteSets, TLC

\* ------------------------------------------------------------------------
\* Bounds of the model
\* ------------------------------------------------------------------------
MaxCalls == 2

\* ------------------------------------------------------------------------
\* Python values
\* ------------------------------------------------------------------------
None == <<"<None>">>

\* truth value of an Optional[str]: None and "" are falsy
Truthy(s) == s # None /\ s # <<>>

StartsWith(s, p) == Len(s) >= Len(p) /\ SubSeq(s, 1, Len(p)) = p

EndsWith(s, p) == Len(s) >= Len(p) /\ SubSeq(s, Len(s) - Len(p) + 1, Len(s)) = p

\* Python's  p in s  for strings
Contains(s, p) == \E i \in 1..(Len(s) - Len(p) + 1) : SubSeq(s, i, i + Len(p) - 1) = p

LowerPiece(c) ==
    CASE c = "EBAY.COM" -> "ebay.com"
      [] c = "WWW." -> "www."
      [] c = "CAPTCHA" -> "captcha"
      [] c = "NoImage" -> "noimage"
      [] c = "HTTPS" -> "https"
      [] c = "IMAGE/" -> "image/"
      [] c = "JPEG" -> "jpeg"
      [] c = "Logo" -> "logo"
      [] c = "AMAZON." -> "amazon."
      [] OTHER -> c

\* str.lower()
Lower(s) == [i \in 1..Len(s) |-> LowerPiece(s[i])]

\* index of the first piece of s that is in set D, or Len(s)+1
RECURSIVE FindFirst(_, _, _)
FindFirst(s, D, i) ==
    IF i > Len(s) THEN Len(s) + 1
    ELSE IF s[i] \in D THEN i
    ELSE FindFirst(s, D, i + 1)

\* str.split(sep)[0]
SplitFirst(s, sep) == SubSeq(s, 1, FindFirst(s, {sep}, 1) - 1)

\* ------------------------------------------------------------------------
\* urllib.parse.urlparse / urljoin as used by the program
\* ------------------------------------------------------------------------
SchemePieces == {"http", "https", "ftp", "data", "HTTPS"}

\* schemes of urllib's uses_relative / uses_netloc that occur in the model
UsesRelative == {"", "http", "https", "ftp"}

\* urlsplit: a scheme is the text before a leading ":" piece
HasScheme(url) == Len(url) >= 2 /\ url[2] = ":" /\ url[1] \in SchemePieces

SchemeOf(url, default_scheme) == IF HasScheme(url) THEN LowerPiece(url[1]) ELSE default_scheme

AfterScheme(url) == IF HasScheme(url) THEN SubSeq(url, 3, Len(url)) ELSE url

HasNetloc(rest) == Len(rest) >= 1 /\ rest[1] = "//"

\* index in rest of the first piece after the netloc
NetlocEnd(rest) == IF HasNetloc(rest) THEN FindFirst(rest, {"/", "?", "#"}, 2) ELSE 1

\* ValueError("Invalid IPv6 URL"): exactly one of "[" and "]" in the netloc
Unbalanced(netloc) ==
    (\E i \in 1..Len(netloc) : netloc[i] = "[") # (\E i \in 1..Len(netloc) : netloc[i] = "]")

UrlParts(scheme, netloc, tail, q) ==
    [raises |-> Unbalanced(netloc),
     scheme |-> scheme,
     netloc |-> netloc,
     path |-> SubSeq(tail, 1, q - 1),
     query |-> SubSeq(tail, q, Len(tail))]

UrlTail(scheme, netloc, tail) == UrlParts(scheme, netloc, tail, FindFirst(tail, {"?", "#"}, 1))

UrlRest(scheme, rest, cut) ==
    UrlTail(scheme, SubSeq(rest, 2, cut - 1), SubSeq(rest, cut, Len(rest)))

\* urlparse(url, default_scheme): [raises, scheme, netloc, path, query]
UrlParse(url, default_scheme) ==
    UrlRest(SchemeOf(url, default_scheme), AfterScheme(url), NetlocEnd(AfterScheme(url)))

\* urlunparse for the components the model keeps
UrlUnparse(scheme, netloc, path, query) ==
    (IF scheme # "" THEN <<scheme, ":">> ELSE <<>>)
    \o (IF netloc # <<>> THEN <<"//">> \o netloc ELSE <<>>)
    \o path \o query

\* the base path without its last segment (urljoin: del base_parts[-1])
RECURSIVE DropLastSegment(_)
DropLastSegment(p) ==
    IF p = <<>> THEN <<>>
    ELSE IF p[Len(p)] = "/" THEN p
    ELSE DropLastSegment(SubSeq(p, 1, Len(p) - 1))

\* removal of "." and ".." segments from a path of pieces
RECURSIVE RemoveDots(_, _)
RemoveDots(p, acc) ==
    IF p = <<>> THEN acc
    ELSE IF p[1] = ".." /\ (Len(p) = 1 \/ p[2] = "/")
         THEN RemoveDots(SubSeq(p, IF Len(p) = 1 THEN 2 ELSE 3, Len(p)),
                         IF Len(acc) >= 2
                         THEN DropLastSegment(SubSeq(acc, 1, Len(acc) - 1))
                         ELSE acc)
    ELSE IF p[1] = "." /\ (Len(p) = 1 \/ p[2] = "/")
         THEN RemoveDots(SubSeq(p, IF Len(p) = 1 THEN 2 ELSE 3, Len(p)), acc)
    ELSE RemoveDots(Tail(p), Append(acc, p[1]))

ValueError == <<"<ValueError>">>

JoinPath(path) == IF path = <<>> THEN <<"/">> ELSE path

\* urljoin once base (b) and url (u) are parsed
JoinParts(b, u, url) ==
    IF b.raises \/ u.raises THEN ValueError
    ELSE IF u.scheme # b.scheme \/ u.scheme \notin UsesRelative THEN url
    ELSE IF u.netloc # <<>> THEN UrlUnparse(u.scheme, u.netloc, u.path, u.query)
    ELSE IF u.path = <<>>
         THEN UrlUnparse(u.scheme, b.netloc, b.path, IF u.query = <<>> THEN b.query ELSE u.query)
    ELSE UrlUnparse(u.scheme, b.netloc,
                    JoinPath(RemoveDots(IF u.path[1] = "/" THEN u.path
                                        ELSE DropLastSegment(JoinPath(b.path)) \o u.path, <<>>)),
                    u.query)

JoinBase(b, url) == JoinParts(b, UrlParse(url, b.scheme), url)

\* urljoin(base, url); ValueError stands for the raised error
UrlJoin(base, url) ==
    IF base = <<>> THEN url
    ELSE IF url = <<>> THEN base
    ELSE JoinBase(UrlParse(base, ""), url)

\* lines 180-181
WithSchemeOf(b, target_path) ==
    IF b.raises THEN ValueError ELSE <<b.scheme, ":">> \o target_path

\* lines 182-186: an exception of urljoin falls back to target_path
JoinedOr(j, target_path) == IF j = ValueError THEN target_path ELSE j

convert_to_absolute_path(base_url, target_path) ==
    IF ~Truthy(target_path)
       \/ StartsWith(target_path, <<"http", ":", "//">>)
       \/ StartsWith(target_path, <<"https", ":", "//">>)
       \/ StartsWith(target_path, <<"data", ":">>)
    THEN (IF Truthy(target_path) THEN target_path ELSE <<>>)
    ELSE IF StartsWith(target_path, <<"//">>)
         THEN WithSchemeOf(UrlParse(base_url, ""), target_path)
    ELSE JoinedOr(UrlJoin(base_url, target_path), target_path)

\* ------------------------------------------------------------------------
\* JSON values (json.loads): a value is [t, s, kv]; t is its type, s the text
\* of a string, kv the <<key, value>> pairs of a dict in document order or
\* the <<"", item>> pairs of a list.  t = "malformed" is a script block on
\* which json.loads raises JSONDecodeError; t = "absent" is no block at all.
\* ------------------------------------------------------------------------
JStr(s) == [t |-> "str", s |-> s, kv |-> <<>>]

JNum == [t |-> "num", s |-> <<>>, kv |-> <<>>]

JNull == [t |-> "null", s |-> <<>>, kv |-> <<>>]

JMalformed == [t |-> "malformed", s |-> <<>>, kv |-> <<>>]

JAbsent == [t |-> "absent", s |-> <<>>, kv |-> <<>>]

JList(items) == [t |-> "list", s |-> <<>>, kv |-> [i \in 1..Len(items) |-> <<"", items[i]>>]]

JDict(pairs) == [t |-> "dict", s |-> <<>>, kv |-> pairs]

\* Python truthiness of a JSON value
JTruthy(j) ==
    CASE j.t = "str" -> j.s # <<>>
      [] j.t \in {"list", "dict"} -> j.kv # <<>>
      [] j.t = "num" -> TRUE
      [] OTHER -> FALSE

HasKey(j, k) == j.t = "dict" /\ \E i \in 1..Len(j.kv) : j.kv[i][1] = k

\* d[k], and d.get(k) with None for a missing key
GetKey(j, k) ==
    IF HasKey(j, k)
    THEN j.kv[CHOOSE i \in 1..Len(j.kv) : j.kv[i][1] = k][2]
    ELSE JNull

\* the Optional[str] a find_image_in_json result is used as: its text, or
\* a marker for a truthy value that is not a string
NonStrList == <<"<list>">>

NonStrOther == <<"<dict-or-number>">>

AsImageUrl(j) ==
    CASE j.t = "str" -> j.s
      [] j.t = "list" /\ j.kv # <<>> -> NonStrList
      [] j.t \in {"dict", "num"} /\ JTruthy(j) -> NonStrOther
      [] OTHER -> None

\* x or y
Or(x, y) == IF Truthy(x) THEN x ELSE y

\* lines 135-137: an object with a truthy 'url' gives its 'url'
UrlField(j) ==
    IF j.t = "dict" /\ JTruthy(GetKey(j, "url")) THEN AsImageUrl(GetKey(j, "url")) ELSE None

\* lines 132-137: the value taken from json_obj['image']
FromImageProp(image_prop) ==
    IF image_prop.t = "str" THEN image_prop.s
    ELSE IF image_prop.t = "list" /\ Len(image_prop.kv) > 0
         THEN (IF image_prop.kv[1][2].t = "str" THEN image_prop.kv[1][2].s
               ELSE UrlField(image_prop.kv[1][2]))
    ELSE UrlField(image_prop)

\* lines 130-137
ImageProp(j) == IF HasKey(j, "image") THEN FromImageProp(GetKey(j, "image")) ELSE None

RECURSIVE find_image_in_json(_)
RECURSIVE FindInItems(_, _, _)
\* the loops of lines 146-150 (skipKeys = {"image", "@graph"}) and 153-155
FindInItems(kv, i, skipKeys) ==
    IF i > Len(kv) THEN None
    ELSE IF kv[i][1] \in skipKeys THEN FindInItems(kv, i + 1, skipKeys)
    ELSE Or(find_image_in_json(kv[i][2]), FindInItems(kv, i + 1, skipKeys))

\* lines 141-143
GraphImage(j) ==
    IF HasKey(j, "@graph") /\ GetKey(j, "@graph").t = "list"
    THEN find_image_in_json(GetKey(j, "@graph"))
    ELSE None

find_image_in_json(json_obj) ==
    IF ~JTruthy(json_obj) THEN None
    ELSE IF json_obj.t = "dict"
         THEN Or(ImageProp(json_obj),
                 Or(GraphImage(json_obj), FindInItems(json_obj.kv, 1, {"image", "@graph"})))
    ELSE IF json_obj.t = "list" THEN FindInItems(json_obj.kv, 1, {})
    ELSE None

\* lines 166-172: a truthy string (or list) is returned; slicing a dict or
\* a number raises TypeError, which is caught, and the loop goes on
BlockImage(image_url) == IF image_url = NonStrOther THEN None ELSE image_url

\* extract_json_ld_image over the script blocks from index i on.  A block
\* without text is JAbsent; JSONDecodeError is caught per block.
RECURSIVE JsonLdFrom(_, _)
JsonLdFrom(scripts, i) ==
    IF i > Len(scripts) THEN None
    ELSE IF scripts[i].t \in {"absent", "malformed"} THEN JsonLdFrom(scripts, i + 1)
    ELSE Or(BlockImage(find_image_in_json(scripts[i])), JsonLdFrom(scripts, i + 1))

extract_json_ld_image(soup) == JsonLdFrom(soup.jsonld, 1)

\* ------------------------------------------------------------------------
\* The parsed document (BeautifulSoup).  A soup is a record
\*   kind     "html", or "empty" (html_content == ""), or "unparsable"
\*            (BeautifulSoup raises)
\*   og, tw   content of the first og:image / twitter:image meta tag, None
\*            when the tag or its content attribute is missing
\*   jsonld   the application/ld+json script blocks, in document order
\*   next_data  the __NEXT_DATA__ script block
\*   ids      the element ids present among the Amazon container ids
\*   imgs     the img elements in document order; inside names the
\*            container an img is found in by the site-specific traversals
\* An img is [src, data_src, width, height, alt, inside]; a missing
\* attribute is None.
\* ------------------------------------------------------------------------
\* len(s) in characters
RECURSIVE CharLen(_)
CharLen(s) == IF s = <<>> THEN 0 ELSE Len(s[1]) + CharLen(Tail(s))

Img(src, data_src, width, height, alt, inside) ==
    [src |-> src, data_src |-> data_src, width |-> width, height |-> height,
     alt |-> alt, inside |-> inside]

\* the result of a find() that finds nothing: every attribute read gives None
NoImg == Img(None, None, None, None, None, "<no element>")

\* soup.find('img', <test>): the first img of imgs, from index i on, that
\* passes Test
RECURSIVE FirstImgWith(_, _, _)
FirstImgWith(imgs, Test(_), i) ==
    IF i > Len(imgs) THEN NoImg
    ELSE IF Test(imgs[i]) THEN imgs[i]
    ELSE FirstImgWith(imgs, Test, i + 1)

\* container.find('img'): the first img inside the named container
FirstImgIn(imgs, where) ==
    LET InContainer(img) == img.inside = where
    IN FirstImgWith(imgs, InContainer, 1)

\* lines 287-294
OkokuFilter(potential_url) ==
    IF Truthy(potential_url) /\ ~Contains(Lower(potential_url), <<"noimage">>)
    THEN potential_url ELSE None

\* lines 280-286: div#product_image > ul.bxslider > first li > first img
_parse_okoku_image(soup) == OkokuFilter(FirstImgIn(soup.imgs, "product_image").src)

\* lines 301-309
SecondStreetFilter(potential_url) ==
    IF Truthy(potential_url)
       /\ ~EndsWith(potential_url, <<"_mn.jpg">>) /\ ~EndsWith(potential_url, <<"_tn.jpg">>)
    THEN potential_url ELSE None

_parse_2ndstreet_image(soup) == SecondStreetFilter(FirstImgIn(soup.imgs, "goodsImages").src)

JRaise == [t |-> "raise", s |-> <<>>, kv |-> <<>>]

\* d.get(k, default) of line 319; JRaise when d is not a dict (AttributeError)
DictGet(d, k, default) ==
    IF d.t # "dict" THEN JRaise
    ELSE IF HasKey(d, k) THEN GetKey(d, k)
    ELSE default

\* line 319
Photos(next_data) ==
    DictGet(DictGet(DictGet(DictGet(next_data, "props", JDict(<<>>)),
                            "pageProps", JDict(<<>>)),
                    "item", JDict(<<>>)),
            "photos", JList(<<>>))

\* lines 320-326: [hit, url]; no hit when photos is empty, not a list of
\* strings, or an exception was caught
PhotosFirst(photos) ==
    IF photos.t = "list" /\ Len(photos.kv) > 0 /\ photos.kv[1][2].t = "str"
    THEN [hit |-> TRUE, url |-> photos.kv[1][2].s]
    ELSE [hit |-> FALSE, url |-> None]

\* lines 314-326: the hydration payload
MercariNextData(soup) ==
    IF soup.next_data.t \in {"absent", "malformed"} THEN [hit |-> FALSE, url |-> None]
    ELSE PhotosFirst(Photos(soup.next_data))

\* the alt text piece for the Japanese 'no samuneiru' (thumbnail of ...)
MercariAltMark == <<"no-samuneiru">>

MercariPattern == <<"https", ":", "//", "static.mercdn.net", "/item/detail/orig/photos/">>

\* line 329
MercariAltTest(img) == Truthy(img.alt) /\ Contains(img.alt, MercariAltMark)

\* lines 336-337: the pattern, followed by at least one more character
MercariSrcTest(img) ==
    /\ img.src # None
    /\ \E i \in 1..Len(img.src) :
          /\ i + Len(MercariPattern) <= Len(img.src)
          /\ SubSeq(img.src, i, i + Len(MercariPattern) - 1) = MercariPattern

\* lines 330-343
MercariPick(nd, alt_src, pattern_src) ==
    IF nd.hit THEN nd.url
    ELSE IF Truthy(alt_src) /\ Contains(alt_src, <<"static.mercdn.net">>) THEN alt_src
    ELSE IF Truthy(pattern_src) THEN pattern_src
    ELSE None

_parse_mercari_image(soup) ==
    MercariPick(MercariNextData(soup),
                FirstImgWith(soup.imgs, MercariAltTest, 1).src,
                FirstImgWith(soup.imgs, MercariSrcTest, 1).src)

image_container_ids == <<"imgTagWrapperId", "landingImage", "ivLargeImage", "main-image-container">>

\* pieces matched by the size-tag pattern \._[A-Z]{2}_\w+_\.
AmazonSizeTags == {"._AC_SL1500_."}

\* re.sub of line 365
CleanAmazon(s) == [i \in 1..Len(s) |-> IF s[i] \in AmazonSizeTags THEN "." ELSE s[i]]

\* lines 350-357: the img of the first container id present on the page
AmazonImg(soup, c) ==
    IF c > Len(image_container_ids) THEN NoImg
    ELSE FirstImgIn(soup.imgs, image_container_ids[c])

\* lines 360-371
AmazonFilter(potential_src) ==
    IF Truthy(potential_src)
       /\ ~StartsWith(potential_src, <<"data", ":", "image">>)
       /\ ~Contains(Lower(potential_src), <<"captcha">>)
    THEN (IF CleanAmazon(potential_src) # potential_src
          THEN CleanAmazon(potential_src)
          ELSE SplitFirst(potential_src, "?"))
    ELSE None

\* line 359: src or data-src
PotentialSrc(img) == Or(img.src, img.data_src)

_parse_amazon_image(soup) ==
    AmazonFilter(PotentialSrc(AmazonImg(soup, FindFirst(image_container_ids, soup.ids, 1))))

\* tag['content'] if tag and tag.get('content') else None
extract_meta_property(soup) == IF Truthy(soup.og) THEN soup.og ELSE None

extract_meta_name(soup) == IF Truthy(soup.tw) THEN soup.tw ELSE None

\* the logo test of line 382 without the domain test
KeepOg_AnyDomain(image_url, domain) ==
    Truthy(image_url) /\ ~Contains(image_url, <<"og_logo.png">>)

\* lines 382-387: the og:image is kept unless it is the okoku.jp logo
KeepOg(image_url, domain) ==
    Truthy(image_url)
    /\ ~(Contains(image_url, <<"og_logo.png">>) /\ Contains(domain, <<"okoku.jp">>))

_extract_standard_metadata_image(soup, domain) ==
    IF KeepOg(extract_meta_property(soup), domain)
    THEN extract_meta_property(soup)
    ELSE extract_meta_name(soup)

\* ------------------------------------------------------------------------
\* _extract_fallback_image
\* ------------------------------------------------------------------------
exclude_patterns ==
    {".gif", ".svg", "ads", "icon", "logo", "sprite", "avatar", "spinner",
     "loading", "pixel", "fls-fe.amazon", "transparent", "spacer", "dummy",
     "captcha", "_tn.", "_mn.", "_thumb.", "/thumb", "-small.", ".small",
     "nav_", "banner", "profile", "badge", "button", "rating"}

exclude_extensions == {".php", ".aspx", ".jsp"}

MinSrcLen == 15

MinSide == 50

\* str.isdigit() and int() of an attribute text
DigitPieces == {"50", "51", "60", "600", "800", "900"}

IntOf(c) ==
    CASE c = "50" -> 50 [] c = "51" -> 51 [] c = "60" -> 60
      [] c = "600" -> 600 [] c = "800" -> 800 [] c = "900" -> 900

IsDigit(s) == Len(s) = 1 /\ s[1] \in DigitPieces

\* lines 419-422, on potential_src and src_lower = potential_src.lower()
ExcludedLower(potential_src, src_lower) ==
    \/ StartsWith(src_lower, <<"data", ":", "image">>)
    \/ \E pat \in exclude_patterns : Contains(src_lower, <<pat>>)
    \/ \E ext \in exclude_extensions : EndsWith(src_lower, <<ext>>)
    \/ CharLen(potential_src) < MinSrcLen

Excluded(potential_src) == ExcludedLower(potential_src, Lower(potential_src))

\* lines 426-435
SizeScore(img) ==
    IF IsDigit(img.width) /\ IsDigit(img.height)
       /\ IntOf(img.width[1]) > MinSide /\ IntOf(img.height[1]) > MinSide
    THEN IntOf(img.width[1]) * IntOf(img.height[1])
    ELSE 0

\* lines 438-439 on alt_text = img.get('alt', '').lower()
AltScoreOf(alt_text) ==
    IF alt_text # <<>> /\ ~Contains(alt_text, <<"thumbnail">>)
       /\ ~Contains(alt_text, <<"logo">>)
    THEN 1 ELSE 0

AltScore(img) == AltScoreOf(IF img.alt = None THEN <<>> ELSE Lower(img.alt))

\* the img at index i is appended to candidate_images: it has a source
\* no earlier img had (checked_sources) and the source is not excluded
IsCandidate(imgs, i) ==
    /\ Truthy(PotentialSrc(imgs[i]))
    /\ \A j \in 1..(i - 1) : PotentialSrc(imgs[j]) # PotentialSrc(imgs[i])
    /\ ~Excluded(PotentialSrc(imgs[i]))

\* sort key comparison of line 450: (size_score, alt_score)
KeyGreater(a, b) ==
    \/ SizeScore(a) > SizeScore(b)
    \/ SizeScore(a) = SizeScore(b) /\ AltScore(a) > AltScore(b)

Candidates(imgs) == {i \in 1..Len(imgs) : IsCandidate(imgs, i)}

\* the candidates no candidate beats
Unbeaten(imgs, cands) == {i \in cands : \A j \in cands : ~KeyGreater(imgs[j], imgs[i])}

\* candidate_images[0] after the stable descending sort: the first
\* unbeaten candidate in document order
\* the last of the equally ranked candidates instead of the first
FirstOf_Last(best) == CHOOSE i \in best : \A j \in best : i >= j

FirstOf(best) == CHOOSE i \in best : \A j \in best : i <= j

\* lines 445-455
BestSrc(imgs, cands) ==
    IF cands = {} THEN None
    ELSE SplitFirst(PotentialSrc(imgs[FirstOf(Unbeaten(imgs, cands))]), "?")

_extract_fallback_image(soup) == BestSrc(soup.imgs, Candidates(soup.imgs))

\* ------------------------------------------------------------------------
\* parse_html_for_image: the cascade.  The result is
\*   image   the returned Optional[str]
\*   raised  an exception leaves the function
\*   stages  the extraction stages executed, in order
\*   origin  the stage whose candidate is returned ("" when none)
\* ------------------------------------------------------------------------
\* the chain of lines 479-482 with the amazon. test ahead of the others
SiteParser_AmazonFirst(domain) ==
    IF Contains(domain, <<"amazon.">>) THEN "amazon"
    ELSE IF Contains(domain, <<"okoku.jp">>) THEN "okoku"
    ELSE IF Contains(domain, <<"2ndstreet.jp">>) THEN "2ndstreet"
    ELSE IF Contains(domain, <<"mercari.com">>) THEN "mercari"
    ELSE "none"

\* lines 479-482: the site-specific parser chosen for the domain
SiteParser(domain) ==
    IF Contains(domain, <<"okoku.jp">>) THEN "okoku"
    ELSE IF Contains(domain, <<"2ndstreet.jp">>) THEN "2ndstreet"
    ELSE IF Contains(domain, <<"mercari.com">>) THEN "mercari"
    ELSE IF Contains(domain, <<"amazon.">>) THEN "amazon"
    ELSE "none"

SiteImageOf(soup, parser) ==
    CASE parser = "okoku" -> _parse_okoku_image(soup)
      [] parser = "2ndstreet" -> _parse_2ndstreet_image(soup)
      [] parser = "mercari" -> _parse_mercari_image(soup)
      [] parser = "amazon" -> _parse_amazon_image(soup)
      [] OTHER -> None

\* lines 475-482: the cascade state after the site-specific stage
SiteStage(soup, parser) ==
    [image_url |-> SiteImageOf(soup, parser),
     stages |-> IF parser # "none" THEN <<"site">> ELSE <<>>]

\* a stage that runs whether or not an earlier stage yielded a candidate
Stage_NoShortCircuit(c, name, candidate) ==
    [image_url |-> Or(c.image_url, candidate), stages |-> Append(c.stages, name)]

\* if not image_url: image_url = <next extractor>
Stage(c, name, candidate) ==
    IF Truthy(c.image_url) THEN c
    ELSE [image_url |-> candidate, stages |-> Append(c.stages, name)]

NoImage(raised, stages) ==
    [image |-> None, raised |-> raised, stages |-> stages, origin |-> ""]

\* lines 502-510; a list found by find_image_in_json has no startswith and
\* convert_to_absolute_path raises AttributeError
Finish(c, base_url) ==
    IF ~Truthy(c.image_url) THEN NoImage(FALSE, c.stages)
    ELSE IF c.image_url = NonStrList THEN NoImage(TRUE, c.stages)
    ELSE [image |-> convert_to_absolute_path(base_url, c.image_url),
          raised |-> FALSE,
          stages |-> c.stages,
          origin |-> c.stages[Len(c.stages)]]

\* the cascade with the structured-data stage ahead of the metadata stage
Cascade_JsonLdFirst(soup, base_url, domain) ==
    Finish(Stage(Stage(Stage(SiteStage(soup, SiteParser(domain)),
                             "jsonld", extract_json_ld_image(soup)),
                       "metadata", _extract_standard_metadata_image(soup, domain)),
                 "fallback", _extract_fallback_image(soup)),
           base_url)

\* lines 474-510
Cascade(soup, base_url, domain) ==
    Finish(Stage(Stage(Stage(SiteStage(soup, SiteParser(domain)),
                             "metadata", _extract_standard_metadata_image(soup, domain)),
                       "jsonld", extract_json_ld_image(soup)),
                 "fallback", _extract_fallback_image(soup)),
           base_url)

parse_html_for_image(html_content, base_url) ==
    IF html_content.kind # "html" THEN NoImage(FALSE, <<>>)
    ELSE IF UrlParse(base_url, "").raises THEN NoImage(TRUE, <<>>)
    ELSE Cascade(html_content, base_url, Lower(UrlParse(base_url, "").netloc))

\* ------------------------------------------------------------------------
\* The inputs of the model: URLs and documents
\* ------------------------------------------------------------------------
Https(host, path) == <<"https", ":", "//">> \o host \o path

U_shop == Https(<<"shop.example">>, <<"/", "p", "/", "1">>)

U_ebay == Https(<<"www.", "ebay.com">>, <<"/", "itm", "/", "1">>)

U_ebayUpper == <<"HTTPS", ":", "//", "WWW.", "EBAY.COM", "/", "itm", "/", "1">>

U_mercari == Https(<<"jp.", "mercari.com">>, <<"/", "item", "/", "m1">>)

U_2ndstreet == Https(<<"www.", "2ndstreet.jp">>, <<"/", "goods", "/", "1">>)

U_okoku == Https(<<"www.", "okoku.jp">>, <<"/", "p", "/", "1">>)

U_amazon == Https(<<"www.", "amazon.", "co.jp">>, <<"/", "dp", "/", "B0">>)

\* passes the row loop's http:// prefix test and makes urlparse raise
U_bracket == <<"http", ":", "//", "[", "shop.example", "/", "p">>

Urls == {U_shop, U_ebay, U_ebayUpper, U_mercari, U_2ndstreet, U_okoku, U_amazon, U_bracket}

Cdn(path) == Https(<<"cdn.example">>, <<"/">> \o path)

Blank ==
    [kind |-> "html", og |-> None, tw |-> None, jsonld |-> <<>>,
     next_data |-> JAbsent, ids |-> {}, imgs |-> <<>>]

LdImage == Cdn(<<"ld", "/", "product.jpg">>)

LdBlock == JDict(<< <<"@type", JStr(<<"Product">>)>>, <<"image", JStr(LdImage)>> >>)

LdGraph ==
    JDict(<< <<"@context", JStr(<<"schema.org">>)>>,
             <<"@graph", JList(<< JDict(<< <<"name", JStr(<<"x">>)>> >>),
                                  JDict(<< <<"image", JList(<< JDict(<< <<"url", JStr(LdImage)>> >>) >>)>> >>) >>)>> >>)

LdUrlList == JDict(<< <<"image", JDict(<< <<"url", JList(<<JStr(LdImage)>>)>> >>)>> >>)

LdUrlNum == JDict(<< <<"image", JDict(<< <<"url", JNum>> >>)>> >>)

LogoImg == Img(Cdn(<<"logo", ".svg">>), None, <<"900">>, <<"900">>, <<"shop">>, "")

ItemImg == Img(Cdn(<<"item-900x900.jpg">>), None, <<"900">>, <<"900">>, None, "")

SmallImg == Img(Cdn(<<"a-small-one.jpg">>), None, <<"50">>, <<"50">>, <<"item">>, "")

LargeImg == Img(None, Cdn(<<"b-large-one.jpg">>), <<"800">>, <<"600">>, None, "")

QueryImg == Img(<<"?", "image=1234567890">>, None, None, None, None, "")

RelImg == Img(<<"img", "/", "photo-of-item.jpg", "?", "v=2">>, None, <<"100px">>, <<"60">>, <<"item">>, "")

Pages ==
    { [Blank EXCEPT !.kind = "empty"],
      [Blank EXCEPT !.kind = "unparsable"],
      Blank,
      [Blank EXCEPT !.og = <<"/", "img", "/", "a.jpg">>],
      [Blank EXCEPT !.og = Cdn(<<"og.jpg">>), !.jsonld = <<LdBlock>>],
      [Blank EXCEPT !.tw = <<"//", "cdn.example", "/", "tw.jpg">>, !.jsonld = <<LdBlock>>],
      [Blank EXCEPT !.og = <<"data", ":", "image", "/png;base64,AAAA">>, !.jsonld = <<LdBlock>>],
      [Blank EXCEPT !.og = Https(<<"www.", "okoku.jp">>, <<"/", "img", "/", "og_logo.png">>),
                    !.jsonld = <<LdBlock>>],
      [Blank EXCEPT !.jsonld = <<JMalformed, LdGraph>>, !.imgs = <<ItemImg>>],
      [Blank EXCEPT !.jsonld = <<LdUrlNum, JAbsent>>, !.imgs = <<LogoImg, ItemImg>>],
      [Blank EXCEPT !.jsonld = <<LdUrlList>>],
      [Blank EXCEPT !.imgs = <<SmallImg, LargeImg>>],
      [Blank EXCEPT !.imgs = <<RelImg>>],
      [Blank EXCEPT !.imgs = <<QueryImg, LogoImg>>],
      [Blank EXCEPT !.og = Cdn(<<"og.jpg">>),
                    !.imgs = <<Img(<<"/", "goods", "/", "main.jpg">>, None, None, None, None, "product_image")>>],
      [Blank EXCEPT !.tw = Cdn(<<"tw.jpg">>),
                    !.imgs = <<Img(Cdn(<<"NoImage", ".png">>), None, None, None, None, "product_image")>>],
      [Blank EXCEPT !.og = Cdn(<<"og.jpg">>),
                    !.imgs = <<Img(Cdn(<<"goods", "/", "1.jpg">>), None, None, None, None, "goodsImages")>>],
      [Blank EXCEPT !.jsonld = <<LdBlock>>,
                    !.imgs = <<Img(Cdn(<<"goods", "/", "1", "_tn.jpg">>), None, None, None, None, "goodsImages")>>],
      [Blank EXCEPT !.og = Cdn(<<"og.jpg">>),
                    !.next_data = JDict(<< <<"props", JDict(<< <<"pageProps", JDict(<< <<"item",
                                      JDict(<< <<"photos", JList(<<JStr(MercariPattern \o <<"m1_1.jpg">>)>>)>> >>)>> >>)>> >>)>> >>)],
      [Blank EXCEPT !.next_data = JDict(<< <<"props", JNull>> >>),
                    !.imgs = <<Img(MercariPattern \o <<"m1_2.jpg">>, None, None, None,
                                   <<"item", "no-samuneiru">>, "")>>],
      [Blank EXCEPT !.next_data = JMalformed, !.og = Cdn(<<"og.jpg">>),
                    !.imgs = <<Img(Cdn(<<"x.jpg">>), None, None, None, <<"no-samuneiru">>, ""),
                               Img(MercariPattern \o <<"m1_3.jpg">>, None, None, None, None, "")>>],
      [Blank EXCEPT !.og = Cdn(<<"og.jpg">>), !.jsonld = <<LdBlock>>,
                    !.ids = {"imgTagWrapperId", "main-image-container"},
                    !.imgs = <<Img(Https(<<"m.media-amazon.com">>, <<"/", "images", "/", "I", "/", "71x", "._AC_SL1500_.", "jpg">>),
                                   None, None, None, None, "imgTagWrapperId")>>],
      [Blank EXCEPT !.ids = {"landingImage", "main-image-container"},
                    !.tw = Cdn(<<"tw.jpg">>),
                    !.imgs = <<Img(Cdn(<<"main-image.jpg">>), None, None, None, None, "main-image-container")>>],
      [Blank EXCEPT !.ids = {"ivLargeImage"},
                    !.imgs = <<Img(None, Cdn(<<"errors", "/", "CAPTCHA", "_x.jpg">>), <<"800">>, <<"600">>, None, "ivLargeImage"),
                               Img(None, Cdn(<<"images", "/", "p1.jpg", "?", "w=1">>), None, None, None, "")>>] }

\* ------------------------------------------------------------------------
\* Fetch Orchestrator: get_image_url_from_url and _get_image_url_with_selenium
\* ------------------------------------------------------------------------
REQUEST_TIMEOUT == 20

SELENIUM_ONLY_DOMAINS == {<<"ebay.com">>, <<"mercari.com">>, <<"2ndstreet.jp">>}

\* the error tags (the Japanese text is rendered in English)
TagSelDirect == <<"NotFound(Sel-Direct)">>

TagNoDriver == <<"NotFound(NoDriver)">>

TagReq == <<"NotFound(Req)">>

TagTimeout == <<"Timeout(>", ToString(REQUEST_TIMEOUT), "s)(Req)">>

TagAccess(status_code) == <<"AccessFailed(Code:", status_code, ")(Req)">>

TagError == <<"Error(Req): ", "str(e)[:50]">>

TagSelRetry == <<" / ", "NotFound(Sel-Retry)">>

TagFetchError == <<"FetchError">>

TagNoRetry == <<"NotFound(Req, No Retry)">>

\* what the network and the browser can answer.  final is response.url /
\* driver.current_url: the requested URL or the target of a redirect.
RedirectTarget == U_amazon

FinalUrls(u) == {u, RedirectTarget}

NoPage == [Blank EXCEPT !.kind = "none"]

Answer(kind, code, page, final) == [kind |-> kind, code |-> code, page |-> page, final |-> final]

\* requests.get + raise_for_status: Timeout, HTTPError (a response with a
\* status), another RequestException without response, any other
\* exception, or a 2xx response
RequestsAnswers(u) ==
    {Answer("timeout", "", NoPage, <<>>), Answer("request_exception", "N/A", NoPage, <<>>),
     Answer("exception", "", NoPage, <<>>)}
    \cup {Answer("request_exception", c, NoPage, <<>>) : c \in {"404", "503"}}
    \cup {Answer("ok", "200", pg, f) : pg \in Pages, f \in FinalUrls(u)}

\* driver.get / page_source / current_url: TimeoutException,
\* WebDriverException, another exception, or a rendered page
SeleniumAnswers(u) ==
    {Answer(k, "", NoPage, <<>>) : k \in {"timeout", "webdriver_exception", "exception"}}
    \cup {Answer("ok", "", pg, f) : pg \in Pages, f \in FinalUrls(u)}

\* the outcome of one fetch-and-parse attempt:
\*   kind    "found", "no_image", "parse_raised" (parse_html_for_image
\*           raised) or the kind of the failed fetch
\*   image   the image URL the attempt yields, None unless kind = "found"
\*   code    the status code of a failed request
\*   page, final, parse   the arguments and the result of
\*           parse_html_for_image, when the parser was called
NoParse == [image |-> None, raised |-> FALSE, stages |-> <<>>, origin |-> "none"]

NoAttempt ==
    [kind |-> "", image |-> None, code |-> "", page |-> NoPage, final |-> <<>>, parse |-> NoParse]

Failed(a) == [NoAttempt EXCEPT !.kind = a.kind, !.code = a.code]

Parsed(a, r) ==
    [kind |-> IF r.raised THEN "parse_raised" ELSE IF Truthy(r.image) THEN "found" ELSE "no_image",
     image |-> IF r.raised THEN None ELSE r.image,
     code |-> "",
     page |-> a.page,
     final |-> a.final,
     parse |-> r]

\* fetch, then parse_html_for_image(html, final URL) (lines 540 and 610)
Attempt(a) ==
    IF a.kind = "ok" THEN Parsed(a, parse_html_for_image(a.page, a.final)) ELSE Failed(a)

\* the table without its mercari.com and 2ndstreet.jp entries
UseSeleniumDirectly_EbayOnly(domain) == Contains(domain, <<"ebay.com">>)

\* lines 574: any(d in domain for d in SELENIUM_ONLY_DOMAINS if d)
UseSeleniumDirectly(domain) ==
    \E d \in SELENIUM_ONLY_DOMAINS : d # <<>> /\ Contains(domain, d)

VARIABLES
    calls,            \* calls of get_image_url_from_url started so far
    driver,           \* TRUE: a WebDriver is passed; FALSE: driver is None
    pc,               \* position in get_image_url_from_url
    url,              \* the argument
    final_image_url,
    error_message,
    fetches,          \* the fetches issued by this call, in order
    lightweight,      \* how the requests attempt ended ("" when not made)
    rendered,         \* how the Selenium attempt ended ("" when not made)
    resolved          \* the last fetch-and-parse attempt of this call

\* the state of one application of a helper function to an argument
VARIABLES
    fn,               \* the function applied ("" when none is)
    arg,              \* its argument
    out               \* its result, NotYet before the application

\* the state of a run of main
VARIABLES
    bpc,              \* position in main and process_excel_rows ("off": no run)
    sheet,            \* the rows of the worksheet below the header
    row_index,        \* the row the loop is at, counted from the first data row
    processed_count,
    process_all_rows, \* the flag process_excel_rows is called with
    session,          \* WebDriverManager.driver: "none", "live", "crashed", "quit"
    acquired,         \* calls of webdriver.Chrome() so far
    file,             \* the rows as last written to the file by save_workbook
    interrupted,      \* a KeyboardInterrupt has been delivered to the run
    downloaded        \* the rows download_and_prepare_image was called for

callVars == <<calls, driver, pc, url, final_image_url, error_message, fetches,
              lightweight, rendered, resolved>>

funVars == <<fn, arg, out>>

batchVars == <<bpc, sheet, row_index, processed_count, process_all_rows, session,
               acquired, file, interrupted, downloaded>>

vars == <<callVars, funVars, batchVars>>

NotYet == <<"<not yet>">>

\* the file holds nothing this run has written
NotSaved == [rows |-> <<>>, save |-> "none"]

\* no helper function is applied on its own
NoFun == fn = "" /\ arg = <<>> /\ out = NotYet

\* no run of main
NoBatch ==
    /\ bpc = "off"
    /\ sheet = <<>>
    /\ row_index = 0
    /\ processed_count = 0
    /\ process_all_rows = FALSE
    /\ session = "none"
    /\ acquired = 0
    /\ file = NotSaved
    /\ interrupted = FALSE
    /\ downloaded = {}

Init ==
    /\ calls = 0
    /\ driver \in BOOLEAN
    /\ pc = "idle"
    /\ url = <<>>
    /\ final_image_url = None
    /\ error_message = None
    /\ fetches = <<>>
    /\ lightweight = ""
    /\ rendered = ""
    /\ resolved = NoAttempt
    /\ NoFun
    /\ NoBatch

\* a caller passes a URL (lines 565-567)
Call(u) ==
    /\ pc \in {"idle", "returned"}
    /\ calls < MaxCalls
    /\ calls' = calls + 1
    /\ url' = u
    /\ pc' = "domain_check"
    /\ final_image_url' = None
    /\ error_message' = None
    /\ fetches' = <<>>
    /\ lightweight' = ""
    /\ rendered' = ""
    /\ resolved' = NoAttempt
    /\ UNCHANGED driver

\* lines 569-576; urlparse is outside every try block
DomainCheck ==
    /\ pc = "domain_check"
    /\ pc' = IF UrlParse(url, "").raises THEN "raised"
             ELSE IF UseSeleniumDirectly(Lower(UrlParse(url, "").netloc)) THEN "selenium_direct"
             ELSE "requests"
    /\ UNCHANGED <<calls, driver, url, final_image_url, error_message, fetches,
                   lightweight, rendered, resolved>>

\* the render-required branch returning no tag when no image was found
SeleniumDirectGot_NoTag(t) ==
    /\ final_image_url' = t.image
    /\ error_message' = None
    /\ rendered' = t.kind
    /\ resolved' = t

\* lines 578-581 with t the outcome of _get_image_url_with_selenium, which
\* catches every exception and then returns None
SeleniumDirectGot(t) ==
    /\ final_image_url' = t.image
    /\ error_message' = IF ~Truthy(t.image) THEN TagSelDirect ELSE None
    /\ rendered' = t.kind
    /\ resolved' = t

\* the no-driver branch reporting the Sel-Direct tag
SeleniumDirect_WrongTag ==
    /\ pc = "selenium_direct"
    /\ \/ /\ driver
          /\ \E a \in SeleniumAnswers(url) : SeleniumDirectGot(Attempt(a))
          /\ fetches' = Append(fetches, "selenium")
       \/ /\ ~driver
          /\ error_message' = TagSelDirect
          /\ UNCHANGED <<final_image_url, fetches, rendered, resolved>>
    /\ pc' = "returned"
    /\ UNCHANGED <<calls, driver, url, lightweight>>

\* lines 576-587
SeleniumDirect ==
    /\ pc = "selenium_direct"
    /\ \/ /\ driver
          /\ \E a \in SeleniumAnswers(url) : SeleniumDirectGot(Attempt(a))
          /\ fetches' = Append(fetches, "selenium")
       \/ /\ ~driver
          /\ error_message' = TagNoDriver
          /\ UNCHANGED <<final_image_url, fetches, rendered, resolved>>
    /\ pc' = "returned"
    /\ UNCHANGED <<calls, driver, url, lightweight>>

\* lines 612-626: the error message after the requests attempt
RequestsError(t) ==
    CASE t.kind = "timeout" -> TagTimeout
      [] t.kind = "request_exception" -> TagAccess(t.code)
      [] t.kind \in {"exception", "parse_raised"} -> TagError
      [] t.kind = "no_image" -> TagReq
      [] OTHER -> None

\* lines 596-630 with t the outcome of the request and the parse
RequestsGot(t) ==
    /\ final_image_url' = t.image
    /\ error_message' = RequestsError(t)
    /\ lightweight' = t.kind
    /\ resolved' = t

\* the request issued again for as long as it fails
RequestsFetch_Again ==
    /\ pc = "requests"
    /\ \E a \in RequestsAnswers(url) :
          /\ RequestsGot(Attempt(a))
          /\ pc' = IF a.kind = "ok" \/ Len(fetches) >= 2 THEN "after_requests" ELSE "requests"
    /\ fetches' = Append(fetches, "requests")
    /\ UNCHANGED <<calls, driver, url, rendered>>

\* lines 590-630
RequestsFetch ==
    /\ pc = "requests"
    /\ \E a \in RequestsAnswers(url) : RequestsGot(Attempt(a))
    /\ fetches' = Append(fetches, "requests")
    /\ pc' = "after_requests"
    /\ UNCHANGED <<calls, driver, url, rendered>>

\* the retry keeping the lightweight error message after a success
RetryGot_KeepError(t) ==
    /\ final_image_url' = IF Truthy(t.image) THEN t.image ELSE final_image_url
    /\ error_message' =
          IF Truthy(t.image) THEN error_message
          ELSE (IF Truthy(error_message) THEN error_message ELSE TagFetchError) \o TagSelRetry
    /\ rendered' = t.kind
    /\ resolved' = t

\* lines 641-647 with t the outcome of _get_image_url_with_selenium
RetryGot(t) ==
    /\ final_image_url' = IF Truthy(t.image) THEN t.image ELSE final_image_url
    /\ error_message' =
          IF Truthy(t.image) THEN None
          ELSE (IF Truthy(error_message) THEN error_message ELSE TagFetchError) \o TagSelRetry
    /\ rendered' = t.kind
    /\ resolved' = t

\* lines 649-652
NoRetryError ==
    IF ~Truthy(final_image_url) /\ ~driver /\ ~Truthy(error_message)
    THEN TagNoRetry
    ELSE error_message

\* the retry made only after a failed request, not after a page without image
Escalate_OnErrorOnly ==
    /\ pc = "after_requests"
    /\ IF ~Truthy(final_image_url) /\ driver /\ lightweight # "no_image"
       THEN /\ \E a \in SeleniumAnswers(url) : RetryGot(Attempt(a))
            /\ fetches' = Append(fetches, "selenium")
       ELSE /\ error_message' = NoRetryError
            /\ UNCHANGED <<final_image_url, fetches, rendered, resolved>>
    /\ pc' = "returned"
    /\ UNCHANGED <<calls, driver, url, lightweight>>

\* lines 635-657
Escalate ==
    /\ pc = "after_requests"
    /\ IF ~Truthy(final_image_url) /\ driver
       THEN /\ \E a \in SeleniumAnswers(url) : RetryGot(Attempt(a))
            /\ fetches' = Append(fetches, "selenium")
       ELSE /\ error_message' = NoRetryError
            /\ UNCHANGED <<final_image_url, fetches, rendered, resolved>>
    /\ pc' = "returned"
    /\ UNCHANGED <<calls, driver, url, lightweight>>

Next ==
    \/ (\E u \in Urls : Call(u)) /\ UNCHANGED <<funVars, batchVars>>
    \/ DomainCheck /\ UNCHANGED <<funVars, batchVars>>
    \/ SeleniumDirect /\ UNCHANGED <<funVars, batchVars>>
    \/ RequestsFetch /\ UNCHANGED <<funVars, batchVars>>
    \/ Escalate /\ UNCHANGED <<funVars, batchVars>>

Spec == Init /\ [][Next]_vars

\* ------------------------------------------------------------------------
\* Properties of the Fetch Orchestrator
\* ------------------------------------------------------------------------
\* the input URLs whose host contains an entry of SELENIUM_ONLY_DOMAINS
RenderRequiredUrls == {U_ebay, U_ebayUpper, U_mercari, U_2ndstreet}

\* the input URLs whose host contains no entry and that urlparse accepts
LightweightUrls == {U_shop, U_okoku, U_amazon}

Returned == pc = "returned"

Found == Truthy(final_image_url)

LightweightFailed == lightweight \in {"timeout", "request_exception", "exception", "parse_raised"}

C3_EscalationIff ==
    (Returned /\ url \in LightweightUrls) =>
        /\ fetches[1] = "requests"
        /\ (fetches = <<"requests", "selenium">>) <=> (lightweight # "found" /\ driver)
        /\ (fetches = <<"requests">>) <=> (lightweight = "found" \/ ~driver)
        /\ lightweight = "found" => (Found /\ rendered = "" /\ final_image_url = resolved.image)
        /\ (lightweight # "found" /\ ~driver) => (~Found /\ rendered = "")
        /\ lightweight \in {"found", "no_image"} \cup {"timeout", "request_exception",
                                                        "exception", "parse_raised"}

C3_Witness ==
    /\ Returned
    /\ url = U_shop
    /\ driver
    /\ lightweight = "no_image"
    /\ fetches = <<"requests", "selenium">>
    /\ rendered = "found"

\* C4: within one call each strategy is attempted at most once and the
\* lightweight fetch never comes after a rendered fetch.
C4_EachStrategyOnce ==
    fetches \in {<<>>, <<"requests">>, <<"selenium">>, <<"requests", "selenium">>}

C4_Witness ==
    /\ Returned
    /\ fetches = <<"requests", "selenium">>
    /\ lightweight = "request_exception"
    /\ rendered = "webdriver_exception"
    /\ ~Found

\* C5: when the lightweight fetch fails and a driver is there, the image
\* returned is the rendered path's result alone, and when the rendered
\* path finds an image that image is returned with no error message.
C5_RenderedDecides ==
    (Returned /\ url \in LightweightUrls /\ LightweightFailed /\ driver) =>
        /\ rendered # ""
        /\ final_image_url = resolved.image
        /\ Found <=> rendered = "found"
        /\ rendered = "found" => error_message = None

C5_Witness ==
    /\ Returned
    /\ lightweight = "timeout"
    /\ driver
    /\ rendered = "found"
    /\ Found
    /\ error_message = None

\* C6: every not-found return carries a diagnostic that tells the causes
\* apart: a rendered fetch that timed out is not reported as 'no image
\* after rendered fetch' (Sel-Direct, Sel-Retry), and a missing driver on
\* the lightweight path is reported as such (the No Retry tag).
C6_DiagnosticsTellCauses ==
    (Returned /\ ~Found) =>
        /\ Truthy(error_message)
        /\ rendered = "timeout" =>
              (error_message # TagSelDirect /\ ~EndsWith(error_message, TagSelRetry))
        /\ (~driver /\ lightweight # "") => Contains(error_message, TagNoRetry)

\* C7: no exception leaves get_image_url_from_url.
C7_NoException == pc # "raised"

\* ------------------------------------------------------------------------
\* Properties of the Resolver, stated on the last parse_html_for_image call
\* of the orchestrator
\* ------------------------------------------------------------------------
ParserRan == resolved.page.kind = "html"

ResolvedDomain == Lower(UrlParse(resolved.final, "").netloc)

StageOrder == <<"site", "metadata", "jsonld", "fallback">>

StageRank(name) == CHOOSE i \in 1..Len(StageOrder) : StageOrder[i] = name

\* what the extractor of a stage gives on the resolved page
StageCandidate(name) ==
    CASE name = "site" -> SiteImageOf(resolved.page, SiteParser(ResolvedDomain))
      [] name = "metadata" -> _extract_standard_metadata_image(resolved.page, ResolvedDomain)
      [] name = "jsonld" -> extract_json_ld_image(resolved.page)
      [] name = "fallback" -> _extract_fallback_image(resolved.page)

StagesRun == resolved.parse.stages

\* C8: the stages run in the order site-specific, metadata, structured
\* data, fallback; a stage runs only if no stage before it yielded a
\* non-empty candidate; the metadata stage and every later stage do run
\* until one yields; and the returned image is the absolute form of the
\* candidate of the first stage that yielded one.
C8_OrderAndShortCircuit ==
    ParserRan =>
        /\ \A i \in 1..Len(StagesRun) : StagesRun[i] \in {"site", "metadata", "jsonld", "fallback"}
        /\ \A i, j \in 1..Len(StagesRun) :
              i < j => /\ StageRank(StagesRun[i]) < StageRank(StagesRun[j])
                       /\ ~Truthy(StageCandidate(StagesRun[i]))
        /\ \A n \in {"metadata", "jsonld", "fallback"} :
              (\A m \in {"site", "metadata", "jsonld"} :
                   StageRank(m) < StageRank(n) => ~Truthy(StageCandidate(m)))
              => \E i \in 1..Len(StagesRun) : StagesRun[i] = n
        /\ (Len(StagesRun) > 0 /\ Truthy(StageCandidate(StagesRun[Len(StagesRun)]))
            /\ ~resolved.parse.raised) =>
              /\ resolved.parse.origin = StagesRun[Len(StagesRun)]
              /\ resolved.parse.image =
                    convert_to_absolute_path(resolved.final,
                                             StageCandidate(StagesRun[Len(StagesRun)]))

C8_Witness ==
    /\ ParserRan
    /\ StagesRun = <<"site", "metadata">>
    /\ resolved.parse.origin = "metadata"
    /\ Truthy(extract_json_ld_image(resolved.page))

HasMetadataTag == Truthy(resolved.page.og) \/ Truthy(resolved.page.tw)

HasJsonLdImage ==
    \E i \in 1..Len(resolved.page.jsonld) :
        resolved.page.jsonld[i].t = "dict" /\ HasKey(resolved.page.jsonld[i], "image")

\* the og:image is the okoku.jp placeholder logo and there is no twitter:image
OkokuLogoOnly ==
    /\ Truthy(resolved.page.og)
    /\ Contains(resolved.page.og, <<"og_logo.png">>)
    /\ Contains(ResolvedDomain, <<"okoku.jp">>)
    /\ ~Truthy(resolved.page.tw)

\* C9 as stated: a page with a metadata image tag and a structured-data
\* image resolves to the metadata image.
C9_MetadataAlwaysWins ==
    (ParserRan /\ HasMetadataTag /\ HasJsonLdImage) =>
        /\ resolved.parse.origin = "metadata"
        /\ resolved.parse.image \in
              {convert_to_absolute_path(resolved.final, resolved.page.og),
               convert_to_absolute_path(resolved.final, resolved.page.tw)}

\* C9 amended: on a page with a metadata image tag and a structured-data
\* image, the structured-data image is returned only when the og:image is
\* the okoku.jp placeholder logo and there is no twitter:image, and the
\* metadata image is returned unless that is so or the site-specific
\* extractor of the host yielded a candidate.
C9_MetadataBeforeJsonLd ==
    (ParserRan /\ HasMetadataTag /\ HasJsonLdImage) =>
        /\ resolved.parse.origin \in {"site", "metadata", "jsonld"}
        /\ resolved.parse.origin = "jsonld" <=>
              (OkokuLogoOnly /\ ~Truthy(StageCandidate("site")))
        /\ resolved.parse.origin = "site" <=> Truthy(StageCandidate("site"))
        /\ resolved.parse.origin = "metadata" =>
              resolved.parse.image =
                 convert_to_absolute_path(resolved.final,
                     IF Truthy(resolved.page.og)
                        /\ ~(Contains(resolved.page.og, <<"og_logo.png">>)
                             /\ Contains(ResolvedDomain, <<"okoku.jp">>))
                     THEN resolved.page.og ELSE resolved.page.tw)

C9_Witness ==
    /\ ParserRan
    /\ Truthy(resolved.page.tw)
    /\ HasJsonLdImage
    /\ resolved.parse.origin = "metadata"
    /\ resolved.parse.image = <<"https", ":", "//", "cdn.example", "/", "tw.jpg">>

\* C10: the Resolver returns None or an absolute http/https URL, never a
\* data URI and never the empty string.
C10_AbsoluteHttpOrNone ==
    (ParserRan /\ ~resolved.parse.raised) =>
        \/ resolved.parse.image = None
        \/ StartsWith(resolved.parse.image, <<"http", ":", "//">>)
        \/ StartsWith(resolved.parse.image, <<"https", ":", "//">>)

\* ------------------------------------------------------------------------
\* download_and_prepare_image
\* ------------------------------------------------------------------------
\* what requests and PIL can answer to one download:
\*   get           "ok", or the exception of requests.get / raise_for_status
\*                 / iter_content: "timeout", "request_exception", "exception"
\*   content_type  the content-type header, None when absent
\*   nbytes        the length of the body
\*   open          "ok", or the exception of PILImage.open and the mode
\*                 conversions: "unidentified", "exception"
\*   size          img.size
\*   save          "ok", or "exception" from resize / convert / save
Response(get, content_type, nbytes, open, size, save) ==
    [get |-> get, content_type |-> content_type, nbytes |-> nbytes, open |-> open,
     size |-> size, save |-> save]

RECURSIVE Gcd(_, _)
Gcd(a, b) == IF b = 0 THEN a ELSE Gcd(b, a % b)

RECURSIVE IsPowerOfTwo(_)
IsPowerOfTwo(n) == n = 1 \/ (n % 2 = 0 /\ IsPowerOfTwo(n \div 2))

\* original_height / original_width is a binary floating-point number: the
\* quotient is exact when the reduced denominator is a power of two
ExactRatio(original_width, original_height) ==
    IsPowerOfTwo(original_width \div Gcd(original_width, original_height))

\* lines 234-235: int(target_width * aspect_ratio).  int() truncates.  When the
\* exact product is a whole number q but the quotient was rounded, the
\* floating-point product is q or just below q, which truncates to q - 1
\* (100 * (57 / 100) is 56.99999999999999).
IntOfProduct(target_width, original_width, original_height) ==
    IF (target_width * original_height) % original_width # 0
       \/ ExactRatio(original_width, original_height)
    THEN {(target_width * original_height) \div original_width}
    ELSE {(target_width * original_height) \div original_width - 1,
          (target_width * original_height) \div original_width}

\* line 235: max(1, int(...))
TargetHeights(target_width, original_width, original_height) ==
    {IF h > 1 THEN h ELSE 1 : h \in IntOfProduct(target_width, original_width, original_height)}

Prepared(width, height) == <<"image", width, height>>

Raised(exception) == <<"raised", exception>>

\* line 207: not content_type or not content_type.lower().startswith('image/')
NotImageType(content_type) ==
    ~Truthy(content_type) \/ ~StartsWith(Lower(content_type), <<"image/">>)

\* lines 194-259, the body of the try block: the set of its outcomes, each
\* a returned value or Raised(the exception that leaves the block)
PrepareBody(r, target_width) ==
    IF r.get # "ok" THEN {Raised(r.get)}
    ELSE IF NotImageType(r.content_type) THEN {None}
    ELSE IF r.nbytes = 0 THEN {None}
    ELSE IF r.open # "ok" THEN {Raised(r.open)}
    ELSE IF r.size[1] <= 0 \/ r.size[2] <= 0 THEN {None}
    ELSE IF r.save # "ok" THEN {Raised(r.save)}
    ELSE {Prepared(target_width, h) : h \in TargetHeights(target_width, r.size[1], r.size[2])}

\* the except clauses without the last one, except Exception
Handled_NoCatchAll(result) ==
    IF result \in {Raised("timeout"), Raised("request_exception"), Raised("unidentified")}
    THEN None ELSE result

\* lines 261-272: every except clause returns None
Handled(result) ==
    IF result \in {Raised("timeout"), Raised("request_exception"), Raised("unidentified"),
                   Raised("exception")}
    THEN None ELSE result

download_and_prepare_image(r, target_width) ==
    {Handled(result) : result \in PrepareBody(r, target_width)}

\* ------------------------------------------------------------------------
\* main, WebDriverManager and process_excel_rows
\* ------------------------------------------------------------------------
\* no call of get_image_url_from_url
NoCall ==
    /\ calls = 0
    /\ driver = FALSE
    /\ pc = "idle"
    /\ url = <<>>
    /\ final_image_url = None
    /\ error_message = None
    /\ fetches = <<>>
    /\ lightweight = ""
    /\ rendered = ""
    /\ resolved = NoAttempt

DEFAULT_IMAGE_WIDTH == 100

\* fails the format test of line 801
U_ftp == <<"ftp", ":", "//", "files.example", "/", "p">>

RowUrls == {U_shop, U_ebay, U_bracket, U_ftp, <<>>}

\* a row with its URL cell and, after clear_previous_results, empty result
\* cells: the hyphen column, the image URL column, the image column
Row(u) == [url |-> u, hyphen |-> None, img_url |-> None, embed |-> None]

Sheets == UNION {[1..n -> {Row(u) : u \in RowUrls}] : n \in 1..MaxCalls}

\* the texts written into the cells (the Japanese text is rendered in English)
TagInvalidUrl == <<"InvalidUrlFormat">>

TagDownloadFailed == <<"ImageDownloadOrProcessingFailed">>

TagFormatError == <<"ImageFormatError?", "(ve)">>

TagEmbedError == <<"ImageEmbedError">>

Hyphen == <<"-">>

\* save_workbook (lines 913-927): workbook.save wrote the rows, or raised
\* and left the file as it was
Saved(rows) == [rows |-> rows, save |-> "ok"]

SaveFailed(f) == [f EXCEPT !.save = "failed"]

\* line 801: url.lower().startswith(('http://', 'https://'))
IsHttp(u) ==
    \/ StartsWith(Lower(u), <<"http", ":", "//">>)
    \/ StartsWith(Lower(u), <<"https", ":", "//">>)

\* what the network and the browser answer during a run
BatchPages == {Blank, [Blank EXCEPT !.og = Cdn(<<"og.jpg">>)], [Blank EXCEPT !.imgs = <<RelImg>>]}

BatchResponses ==
    {Response("timeout", None, 0, "ok", <<1, 1>>, "ok"),
     Response("ok", <<"text/html">>, 1, "ok", <<1, 1>>, "ok"),
     Response("ok", <<"image/", "png">>, 1, "ok", <<400, 200>>, "ok")}

\* OpenpyxlImage / sheet.add_image: done, ValueError, another exception
EmbedOutcomes == {"ok", "value_error", "exception"}

\* a quit that leaves a crashed session unreleased
Exit_OnlyLive(s) == IF s = "live" THEN "quit" ELSE s

\* WebDriverManager.__exit__ (lines 98-109): quit when a driver was created
Exit(s) == IF s \in {"live", "crashed"} THEN "quit" ELSE s

BatchInit ==
    /\ NoCall
    /\ NoFun
    /\ bpc = "start"
    /\ sheet \in Sheets
    /\ row_index = 0
    /\ processed_count = 0
    /\ process_all_rows \in BOOLEAN
    /\ session = "none"
    /\ acquired = 0
    /\ file = NotSaved
    /\ interrupted = FALSE
    /\ downloaded = {}

\* a failed start that still hands a driver to process_excel_rows
WebDriverEnter_KeepsDriver ==
    /\ bpc = "start"
    /\ \/ UNCHANGED <<driver, session, acquired>>
       \/ /\ driver' = TRUE
          /\ session' \in {"live", "none"}
          /\ acquired' = acquired + 1
    /\ bpc' = "process"
    /\ UNCHANGED <<calls, pc, url, final_image_url, error_message, fetches, lightweight,
                   rendered, resolved, funVars, sheet, row_index, processed_count,
                   process_all_rows, downloaded, file, interrupted>>

\* lines 1036-1067 up to the call of process_excel_rows: --skip-selenium,
\* or WebDriverManager.__enter__ (lines 68-96) giving a driver or None
WebDriverEnter ==
    /\ bpc = "start"
    /\ \/ UNCHANGED <<driver, session, acquired>>
       \/ /\ driver' = TRUE
          /\ session' = "live"
          /\ acquired' = acquired + 1
       \/ /\ driver' = FALSE
          /\ session' = "none"
          /\ acquired' = acquired + 1
    /\ bpc' = "process"
    /\ UNCHANGED <<calls, pc, url, final_image_url, error_message, fetches, lightweight,
                   rendered, resolved, funVars, sheet, row_index, processed_count,
                   process_all_rows, downloaded, file, interrupted>>

\* lines 771-784: no row with a URL ends process_excel_rows at once
ProcessStart ==
    /\ bpc = "process"
    /\ bpc' = IF \E i \in 1..Len(sheet) : sheet[i].url # <<>> THEN "rows" ELSE "after_loop"
    /\ row_index' = 1
    /\ UNCHANGED <<callVars, funVars, sheet, processed_count, process_all_rows, downloaded, session,
                   acquired, file, interrupted>>

\* lines 786-823: one pass through the head of the loop: past the last row,
\* an empty URL, a URL of another format, or the call for a valid URL
RowStep ==
    /\ bpc = "rows"
    /\ IF row_index > Len(sheet)
       THEN /\ bpc' = "after_loop"
            /\ UNCHANGED <<callVars, sheet, row_index, processed_count>>
       ELSE IF sheet[row_index].url = <<>>
       THEN /\ bpc' = IF process_all_rows THEN "after_loop" ELSE "rows"
            /\ row_index' = IF process_all_rows THEN row_index ELSE row_index + 1
            /\ UNCHANGED <<callVars, sheet, processed_count>>
       ELSE IF ~IsHttp(sheet[row_index].url)
       THEN /\ sheet' = [sheet EXCEPT ![row_index].img_url = TagInvalidUrl]
            /\ bpc' = IF process_all_rows THEN "after_loop" ELSE "rows"
            /\ row_index' = IF process_all_rows THEN row_index ELSE row_index + 1
            /\ UNCHANGED <<callVars, processed_count>>
       ELSE /\ processed_count' = processed_count + 1
            /\ sheet' = [sheet EXCEPT ![row_index].hyphen = Hyphen]
            /\ Call(sheet[row_index].url)
            /\ bpc' = "in_call"
            /\ UNCHANGED row_index
    /\ UNCHANGED <<funVars, process_all_rows, downloaded, session, acquired, file, interrupted>>

\* the step of the call fetched with the browser
RenderedFetched == Len(fetches') > Len(fetches) /\ fetches'[Len(fetches')] = "selenium"

\* the step of the call ran _extract_fallback_image over an img that passes
\* the filters and scores no size: the try block of lines 427-433 was run
SizeParseReached ==
    /\ Len(fetches') > Len(fetches)
    /\ \E k \in 1..Len(resolved'.parse.stages) : resolved'.parse.stages[k] = "fallback"
    /\ \E i \in Candidates(resolved'.page.imgs) : SizeScore(resolved'.page.imgs[i]) = 0

\* the run's network and browser: the pages are those of BatchPages,
\* without redirect; a browser that is not live answers no fetch, and a
\* live one may crash during a fetch
InRun ==
    /\ resolved'.page \in BatchPages \cup {NoPage}
    /\ resolved'.final \in {<<>>, url}
    /\ IF ~RenderedFetched THEN session' = session
       ELSE IF session # "live"
       THEN rendered' \in {"webdriver_exception", "exception"} /\ session' = session
       ELSE session' \in (IF rendered' = "webdriver_exception" THEN {"live", "crashed"} ELSE {"live"})

\* a KeyboardInterrupt delivered inside the try block of lines 427-433 is
\* caught by the bare except of line 434: the size score of that img stays
\* 0, as it is without the interrupt, and the call goes on
SwallowedInterrupt ==
    interrupted' \in (IF ~interrupted /\ SizeParseReached THEN {FALSE, TRUE} ELSE {interrupted})

\* a step of get_image_url_from_url (line 823) inside the run
CallStep(Step) ==
    /\ bpc = "in_call"
    /\ Step
    /\ InRun
    /\ SwallowedInterrupt
    /\ UNCHANGED <<funVars, bpc, sheet, row_index, processed_count, process_all_rows, downloaded,
                   acquired, file>>

\* an embed cell left empty when the download gave no image
EmbedCell_NoFailureTag(d, e) == IF e = "ok" THEN d ELSE TagEmbedError

\* lines 885-887, 891-896 with d the result of download_and_prepare_image
\* and e the outcome of the embedding
EmbedCell(d, e) ==
    IF d = None THEN TagDownloadFailed
    ELSE IF e = "ok" THEN d
    ELSE IF e = "value_error" THEN TagFormatError
    ELSE TagEmbedError

\* lines 825-909: the rest of the loop body after the call returned
RowFinish ==
    /\ bpc = "in_call"
    /\ pc = "returned"
    /\ IF Truthy(final_image_url)
       THEN \E r \in BatchResponses, e \in EmbedOutcomes :
               \E d \in download_and_prepare_image(r, DEFAULT_IMAGE_WIDTH) :
                  sheet' = [sheet EXCEPT ![row_index].img_url = final_image_url,
                                         ![row_index].embed = EmbedCell(d, e)]
       ELSE sheet' = [sheet EXCEPT ![row_index].img_url =
                         IF Truthy(error_message) THEN error_message ELSE TagFetchError]
    /\ downloaded' = IF Truthy(final_image_url) THEN downloaded \cup {row_index}
                      ELSE downloaded
    /\ row_index' = row_index + 1
    /\ bpc' = "rows"
    /\ UNCHANGED <<callVars, funVars, processed_count, process_all_rows, session, acquired,
                   file, interrupted>>

\* the exception of line 569 leaves process_excel_rows (line 823 is in no
\* try block), the with block (lines 98-109) and is caught at line 1103:
\* nothing is saved
ErrorExit ==
    /\ bpc = "in_call"
    /\ pc = "raised"
    /\ session' = Exit(session)
    /\ bpc' = "error"
    /\ UNCHANGED <<callVars, funVars, sheet, row_index, processed_count, process_all_rows, downloaded,
                   acquired, file, interrupted>>

\* a KeyboardInterrupt during process_excel_rows that reaches main: the
\* with block is left (lines 98-109) and line 1080 catches it without saving
Interrupt ==
    /\ bpc \in {"process", "rows", "in_call"}
    /\ ~interrupted
    /\ interrupted' = TRUE
    /\ session' = Exit(session)
    /\ bpc' = "interrupted"
    /\ UNCHANGED <<callVars, funVars, sheet, row_index, processed_count, process_all_rows, downloaded,
                   acquired, file>>

\* process_excel_rows returned: the with block is left (lines 98-109) and
\* lines 1069-1077 save when a row was processed or --debug is set;
\* save_workbook (lines 913-927) catches the errors of workbook.save
AfterLoop ==
    /\ bpc = "after_loop"
    /\ session' = Exit(session)
    /\ \E debug \in BOOLEAN, saved \in BOOLEAN :
          file' = IF processed_count > 0 \/ debug
                  THEN (IF saved THEN Saved(sheet) ELSE SaveFailed(file))
                  ELSE file
    /\ bpc' = "done"
    /\ UNCHANGED <<callVars, funVars, sheet, row_index, processed_count, process_all_rows, downloaded,
                   acquired, interrupted>>

BatchNext ==
    \/ WebDriverEnter
    \/ ProcessStart
    \/ RowStep
    \/ CallStep(DomainCheck)
    \/ CallStep(SeleniumDirect)
    \/ CallStep(RequestsFetch)
    \/ CallStep(Escalate)
    \/ RowFinish
    \/ ErrorExit
    \/ Interrupt
    \/ AfterLoop

BatchSpec == BatchInit /\ [][BatchNext]_vars

\* the steps the program takes by itself: every one of them ends, the
\* blocking calls by their timeouts (lines 202, 522, 597)
BatchProgram ==
    \/ WebDriverEnter
    \/ ProcessStart
    \/ RowStep
    \/ CallStep(DomainCheck)
    \/ CallStep(SeleniumDirect)
    \/ CallStep(RequestsFetch)
    \/ CallStep(Escalate)
    \/ RowFinish
    \/ ErrorExit
    \/ AfterLoop

\* the run with the program never stopping while it has a step to take
LiveBatchSpec == BatchSpec /\ WF_vars(BatchProgram)

\* ------------------------------------------------------------------------
\* The helper functions applied on their own to an argument
\* ------------------------------------------------------------------------
MaxImgs == 3

PathBases ==
    {U_shop, U_ebayUpper, U_bracket,
     <<"https", ":", "//", "shop.example", "/", "dir", "/", "page.html", "?", "x=1">>,
     <<"http", ":", "//", "shop.example">>,
     <<"ftp", ":", "//", "files.example", "/", "a", "/", "b">>,
     <<"data", ":", "text/html,hi">>,
     <<"shop.example", "/", "p">>}

PathTargets ==
    {None, <<>>,
     <<"img", "/", "a.jpg">>, <<"/", "img", "/", "a.jpg">>, <<"..", "/", "a.jpg">>,
     <<".", "/", "a.jpg">>, <<"?", "v=2">>,
     <<"//", "cdn.example", "/", "a.jpg">>,
     <<"http", ":", "//", "cdn.example", "/", "a.jpg">>,
     Cdn(<<"a.jpg">>),
     <<"data", ":", "image", "/png;base64,AAAA">>,
     <<"ftp", ":", "//", "files.example", "/", "a.jpg">>}

PathArgs == [base_url : PathBases, target_path : PathTargets]

\* img elements: equal scores, generic alt text, no size, denylisted
\* references, references with a query
TieFirstImg == Img(Cdn(<<"tie-first.jpg">>), None, <<"60">>, <<"60">>, <<"item">>, "")

TieSecondImg == Img(Cdn(<<"tie-second.jpg">>), None, <<"60">>, <<"60">>, <<"item">>, "")

GenericAltImg == Img(Cdn(<<"generic-alt.jpg">>), None, <<"60">>, <<"60">>, <<"shop ", "Logo">>, "")

CaptchaImg == Img(Cdn(<<"errors", "/", "CAPTCHA", "_x.jpg">>), None, <<"900">>, <<"900">>, <<"item">>, "")

ScriptImg == Img(Cdn(<<"image", ".php">>), None, <<"900">>, <<"900">>, <<"item">>, "")

ScriptQueryImg == Img(Cdn(<<"image", ".php", "?", "id=1">>), None, None, None, None, "")

ShortImg == Img(<<"/", "a.jpg">>, None, <<"900">>, <<"900">>, <<"item">>, "")

DataImageImg == Img(<<"data", ":", "image", "/png;base64,AAAA">>, None, <<"900">>, <<"900">>, <<"item">>, "")

DataOtherImg ==
    Img(<<"data", ":", "application", "/octet-stream;base64,AAAA">>, None, <<"800">>, <<"600">>, None, "")

FallbackImgs ==
    {SmallImg, LargeImg, ItemImg, LogoImg, QueryImg, TieFirstImg, TieSecondImg, GenericAltImg,
     CaptchaImg, ScriptImg, ScriptQueryImg, ShortImg, DataImageImg, DataOtherImg}

FallbackArgs == UNION {[1..n -> FallbackImgs] : n \in 0..MaxImgs}

ImageSizes ==
    {<<400, 200>>, <<300, 200>>, <<100, 57>>, <<5, 23>>, <<64, 48>>, <<1000, 3>>, <<1, 1>>,
     <<0, 10>>, <<10, 0>>}

TargetWidths == {1, 100, 150}

ImageTypes == {<<"image/", "png">>, <<"IMAGE/", "JPEG">>}

Responses ==
    {Response(g, None, 0, "ok", <<1, 1>>, "ok") : g \in {"timeout", "request_exception", "exception"}}
    \cup {Response("ok", ct, 1, "ok", <<1, 1>>, "ok") : ct \in {None, <<>>, <<"text/html">>, <<"imaginary/", "x">>}}
    \cup {Response("ok", ct, 0, "ok", <<1, 1>>, "ok") : ct \in ImageTypes}
    \cup {Response("ok", <<"image/", "png">>, 1, o, <<1, 1>>, "ok") : o \in {"unidentified", "exception"}}
    \cup {Response("ok", ct, 1, "ok", sz, sv) : ct \in ImageTypes, sz \in ImageSizes, sv \in {"ok", "exception"}}

DownloadArgs == [response : Responses, target_width : TargetWidths]

\* a page on which each of the four site-specific parsers finds an image
\* of its own, with an og:image besides
SitePage ==
    [Blank EXCEPT
       !.og = Cdn(<<"og.jpg">>),
       !.ids = {"landingImage"},
       !.next_data = JDict(<< <<"props", JDict(<< <<"pageProps", JDict(<< <<"item",
                         JDict(<< <<"photos", JList(<<JStr(MercariPattern \o <<"m1_1.jpg">>)>>)>> >>)>> >>)>> >>)>> >>),
       !.imgs = <<Img(Cdn(<<"okoku.jpg">>), None, None, None, None, "product_image"),
                  Img(Cdn(<<"2nd.jpg">>), None, None, None, None, "goodsImages"),
                  Img(Cdn(<<"amazon.jpg">>), None, None, None, None, "landingImage")>>]

\* a page whose only structured-data image is a list under 'url', with a
\* large img besides
LdListPage == [Blank EXCEPT !.jsonld = <<LdUrlList>>, !.imgs = <<LargeImg>>]

ParsePages == Pages \cup {SitePage, LdListPage}

\* final URLs whose host holds one, none or two of the domain substrings
ParseBases ==
    {Https(<<"www.", "okoku.jp">>, <<"/", "p">>),
     Https(<<"www.", "2ndstreet.jp">>, <<"/", "p">>),
     Https(<<"jp.", "mercari.com">>, <<"/", "p">>),
     Https(<<"www.", "amazon.", "co.jp">>, <<"/", "p">>),
     Https(<<"WWW.", "AMAZON.", "com">>, <<"/", "p">>),
     Https(<<"shop.example">>, <<"/", "p">>),
     Https(<<"amazon.", "okoku.jp">>, <<"/", "p">>),
     Https(<<"mercari.com", ".", "2ndstreet.jp">>, <<"/", "p">>),
     Https(<<"amazon.", "mercari.com">>, <<"/", "p">>)}

ParseArgs == [html_content : ParsePages, base_url : ParseBases]

\* the content of the og:image and twitter:image tags: no tag, an empty
\* content, an image, the placeholder
MetaOgs ==
    {None, <<>>, Cdn(<<"og.jpg">>),
     Https(<<"www.", "okoku.jp">>, <<"/", "img", "/", "og_logo.png">>),
     Cdn(<<"og_logo.png">>)}

MetaTws == {None, <<>>, Cdn(<<"tw.jpg">>)}

MetaDomains == {<<"www.", "okoku.jp">>, <<"okoku.jp">>, <<"shop.example">>, <<"www.", "amazon.", "co.jp">>}

MetaArgs == [og : MetaOgs, tw : MetaTws, domain : MetaDomains]

\* parsed JSON values: strings and a number, lists and objects of them,
\* and objects and lists of two of those
JsonStrings == {JStr(Cdn(<<"a.jpg">>)), JStr(Cdn(<<"b.jpg">>))}

JsonLeaves == JsonStrings \cup {JStr(<<>>), JNum}

JsonInner ==
    JsonLeaves
    \cup {JList(<<x>>) : x \in JsonLeaves}
    \cup {JDict(<< <<k, x>> >>) : k \in {"image", "url"}, x \in JsonStrings \cup {JNum}}
    \cup {JList(<<JDict(<< <<"image", JStr(Cdn(<<"b.jpg">>))>> >>)>>)}

JsonKeys == {"image", "@graph", "a"}

JsonArgs ==
    JsonInner
    \cup {JDict(<< <<k1, v1>>, <<k2, v2>> >>) :
            k1 \in JsonKeys, k2 \in JsonKeys \ {"image"}, v1 \in JsonInner, v2 \in JsonInner}
    \cup {JList(<<v1, v2>>) : v1 \in JsonInner, v2 \in JsonInner}

\* the value a function applied on its own returned, when it is a record
Applied(result) == <<"applied", result>>

FunInit ==
    /\ NoCall
    /\ NoBatch
    /\ out = NotYet
    /\ \/ fn = "convert_to_absolute_path" /\ arg \in PathArgs
       \/ fn = "_extract_fallback_image" /\ arg \in FallbackArgs
       \/ fn = "download_and_prepare_image" /\ arg \in DownloadArgs
       \/ fn = "parse_html_for_image" /\ arg \in ParseArgs
       \/ fn = "_extract_standard_metadata_image" /\ arg \in MetaArgs
       \/ fn = "find_image_in_json" /\ arg \in JsonArgs

ApplyPath ==
    /\ fn = "convert_to_absolute_path"
    /\ out = NotYet
    /\ out' = convert_to_absolute_path(arg.base_url, arg.target_path)
    /\ UNCHANGED <<fn, arg, callVars, batchVars>>

ApplyFallback ==
    /\ fn = "_extract_fallback_image"
    /\ out = NotYet
    /\ out' = _extract_fallback_image([Blank EXCEPT !.imgs = arg])
    /\ UNCHANGED <<fn, arg, callVars, batchVars>>

ApplyDownload ==
    /\ fn = "download_and_prepare_image"
    /\ out = NotYet
    /\ out' \in download_and_prepare_image(arg.response, arg.target_width)
    /\ UNCHANGED <<fn, arg, callVars, batchVars>>

ApplyParse ==
    /\ fn = "parse_html_for_image"
    /\ out = NotYet
    /\ out' = Applied(parse_html_for_image(arg.html_content, arg.base_url))
    /\ UNCHANGED <<fn, arg, callVars, batchVars>>

ApplyMetadata ==
    /\ fn = "_extract_standard_metadata_image"
    /\ out = NotYet
    /\ out' = _extract_standard_metadata_image([Blank EXCEPT !.og = arg.og, !.tw = arg.tw],
                                               arg.domain)
    /\ UNCHANGED <<fn, arg, callVars, batchVars>>

ApplyJson ==
    /\ fn = "find_image_in_json"
    /\ out = NotYet
    /\ out' = find_image_in_json(arg)
    /\ UNCHANGED <<fn, arg, callVars, batchVars>>

FunNext ==
    \/ ApplyPath
    \/ ApplyFallback
    \/ ApplyDownload
    \/ ApplyParse
    \/ ApplyMetadata
    \/ ApplyJson

FunSpec == FunInit /\ [][FunNext]_vars

\* ------------------------------------------------------------------------
\* Properties of the helper functions
\* ------------------------------------------------------------------------
PathApplied == fn = "convert_to_absolute_path" /\ out # NotYet

\* a non-empty reference without a scheme, "//" references included
IsRelativeRef(r) == Truthy(r) /\ ~HasScheme(r)

\* C11: convert_to_absolute_path gives, for every non-empty relative
\* reference and every base URL that has a scheme, a result with an explicit
\* scheme (for a "//" reference the scheme of the base); it returns a
\* reference with an http or https scheme unchanged; and it gives the empty
\* string for an empty reference.
C11_ExplicitScheme ==
    PathApplied =>
        /\ (IsRelativeRef(arg.target_path) /\ HasScheme(arg.base_url)) =>
              /\ out # ValueError
              /\ HasScheme(out)
              /\ StartsWith(arg.target_path, <<"//">>) =>
                    out = <<SchemeOf(arg.base_url, "")>> \o <<":">> \o arg.target_path
        /\ (\/ StartsWith(arg.target_path, <<"http", ":", "//">>)
            \/ StartsWith(arg.target_path, <<"https", ":", "//">>)) => out = arg.target_path
        /\ arg.target_path = <<>> => out = <<>>

FallbackApplied == fn = "_extract_fallback_image" /\ out # NotYet

\* the reference of the img at index i of the argument
RefOf(i) == PotentialSrc(arg[i])

\* C12: the fallback extractor returns the reference (without its query) of
\* the surviving candidate with the highest (size score, alt score), the
\* first such candidate in document order when several share that score;
\* the 800x600 image wins over the 50x50 one; without a surviving candidate
\* the result is None.
C12_HighestScoreFirstWins ==
    FallbackApplied =>
        /\ Candidates(arg) = {} => out = None
        /\ Candidates(arg) # {} =>
              \E i \in Candidates(arg) :
                 /\ out = SplitFirst(RefOf(i), "?")
                 /\ \A j \in Candidates(arg) :
                       /\ SizeScore(arg[j]) <= SizeScore(arg[i])
                       /\ SizeScore(arg[j]) = SizeScore(arg[i]) => AltScore(arg[j]) <= AltScore(arg[i])
                       /\ (SizeScore(arg[j]) = SizeScore(arg[i]) /\ AltScore(arg[j]) = AltScore(arg[i])
                           /\ SplitFirst(RefOf(j), "?") # out) => i < j
        /\ arg \in {<<SmallImg, LargeImg>>, <<LargeImg, SmallImg>>} => out = LargeImg.data_src

\* two candidates share the highest score and the first of them is returned
C12_Witness ==
    /\ FallbackApplied
    /\ arg = <<SmallImg, TieFirstImg, TieSecondImg>>
    /\ out = TieFirstImg.src

\* the denylist of the fallback extractor as the claim states it
Denylisted(ref) ==
    \/ \E pat \in exclude_patterns : Contains(Lower(ref), <<pat>>)
    \/ StartsWith(Lower(ref), <<"data", ":">>)
    \/ \E ext \in exclude_extensions : EndsWith(Lower(ref), <<ext>>)
    \/ CharLen(ref) < MinSrcLen

\* C13: an img whose reference contains a denylisted text, is a data URI,
\* ends in a script extension or is shorter than the minimum length is never
\* the one the fallback extractor selects: a result comes from an img that
\* is not denylisted.
C13_DenylistedNeverSelected ==
    (FallbackApplied /\ out # None) =>
        \E i \in 1..Len(arg) :
           /\ Truthy(RefOf(i))
           /\ ~Denylisted(RefOf(i))
           /\ out = SplitFirst(RefOf(i), "?")

DownloadApplied == fn = "download_and_prepare_image" /\ out # NotYet

IsPrepared(result) == Len(result) = 3 /\ result[1] = "image"

\* round(n / d) for n >= 0 and d > 0, halves to the even neighbour
RoundDiv(n, d) ==
    IF 2 * (n % d) > d THEN n \div d + 1
    ELSE IF 2 * (n % d) < d THEN n \div d
    ELSE IF (n \div d) % 2 = 0 THEN n \div d
    ELSE n \div d + 1

\* C14: a prepared image has the requested width and the height
\* max(1, round(target width x original height / original width)).
C14_RoundedAspectHeight ==
    (DownloadApplied /\ IsPrepared(out)) =>
        /\ out[2] = arg.target_width
        /\ out[3] >= 1
        /\ out[3] = (IF RoundDiv(arg.target_width * arg.response.size[2], arg.response.size[1]) > 1
                     THEN RoundDiv(arg.target_width * arg.response.size[2], arg.response.size[1])
                     ELSE 1)

\* the failures the claim lists
ResponseFails(r) ==
    \/ r.get # "ok"
    \/ ~Truthy(r.content_type)
    \/ ~StartsWith(Lower(r.content_type), <<"image/">>)
    \/ r.nbytes = 0
    \/ r.open # "ok"
    \/ r.size[1] <= 0
    \/ r.size[2] <= 0
    \/ r.save # "ok"

\* C15: download_and_prepare_image never raises; it returns None when the
\* download fails or times out, the content type is not an image type, the
\* body is empty, a dimension is not positive or decoding or encoding
\* raises; it returns an image only when none of these happened.
C15_NoneOnEveryFailure ==
    DownloadApplied =>
        /\ out = None \/ IsPrepared(out)
        /\ out = None <=> ResponseFails(arg.response)

\* a decode error that only the last except clause catches
C15_Witness ==
    /\ DownloadApplied
    /\ arg.response.open = "exception"
    /\ out = None

\* ------------------------------------------------------------------------
\* Properties of the batch
\* ------------------------------------------------------------------------
\* row i holds a URL that passes the format test of line 801
ValidRow(i) == sheet[i].url # <<>> /\ IsHttp(sheet[i].url)

\* with process_all_rows the loop stops at the first row that is not valid
StoppedBefore(i) == process_all_rows /\ \E j \in 1..(i - 1) : ~ValidRow(j)

\* the image URL cell of row i holds an image URL or a tag
Tagged(i) == Truthy(sheet[i].img_url)

\* the run ended without a KeyboardInterrupt reaching main
BatchEnded == bpc \in {"done", "error"}

\* C16: whatever fails while a row is processed, the run ends with every
\* row that the loop was to process holding an image URL or a tag, and,
\* when a row was processed, with the rows written to the file (a save
\* that itself fails aside).
C16_NothingFatalToBatch ==
    BatchEnded =>
        /\ \A i \in 1..Len(sheet) : (ValidRow(i) /\ ~StoppedBefore(i)) => Tagged(i)
        /\ processed_count > 0 => (file = Saved(sheet) \/ file.save = "failed")

\* C17: once a KeyboardInterrupt has been delivered during the row
\* iteration, no row is processed any more and the cells stay as they
\* were at the interrupt.
C17_InterruptStopsIteration ==
    [][interrupted => (/\ row_index' = row_index
                       /\ processed_count' = processed_count
                       /\ sheet' = sheet)]_vars

\* the rendered fetch of the current row failed (lines 547-554)
RenderFailed ==
    bpc = "in_call" /\ rendered \in {"timeout", "webdriver_exception", "exception"}

\* C18 as first stated: after the browser crashed, no rendered fetch is
\* attempted for the rest of the run.
C18_CrashDisablesRendering == [][session = "crashed" => ~RenderedFetched]_vars

\* C18: a failed rendered fetch never raises out of the call and gives
\* the row a not-found tag, every row the loop has passed holds its
\* result, and without a session (none started, or the start failed) no
\* rendered fetch is made; after a crash the driver is still handed to
\* every call, whose rendered fetch fails into the row's not-found tag.
C18_RenderingErrorsNotFatal ==
    /\ RenderFailed => pc # "raised"
    /\ (RenderFailed /\ pc = "returned") =>
           (~Truthy(final_image_url) /\ Truthy(error_message))
    /\ \A i \in 1..Len(sheet) : (i < row_index /\ ValidRow(i)) => Tagged(i)
    /\ session = "none" => (~driver /\ \A k \in 1..Len(fetches) : fetches[k] # "selenium")
    /\ session = "crashed" => driver

\* the browser crashed during the rendered fetch of row 1, row 1 got its
\* not-found tag, and the call of row 2 is about to fetch with the driver
C18_Witness ==
    /\ session = "crashed"
    /\ row_index = 2
    /\ sheet[1].img_url \in {TagSelDirect, TagSelRetry}
    /\ bpc = "in_call"
    /\ pc = "selenium_direct"
    /\ driver

\* the browser session is held: started and not yet quit
SessionHeld == session \in {"live", "crashed"}

\* C19: webdriver.Chrome is called at most once in a run; the session
\* it gives stays the one session until it is quit, and it is quit when
\* the run has ended, normally, by an exception or by an interrupt; a
\* rendered fetch is made only while the session is held, and a session
\* that was quit is never started again.
C19_SessionScoped ==
    /\ [](/\ acquired <= 1
          /\ SessionHeld => (acquired = 1 /\ bpc \in {"process", "rows", "in_call", "after_loop"})
          /\ bpc \in {"done", "error", "interrupted"} => ~SessionHeld)
    /\ [][/\ RenderedFetched => SessionHeld
          /\ SessionHeld => (acquired' = acquired /\ session' \in {"live", "crashed", "quit"})
          /\ session = "quit" => session' = "quit"]_vars

\* a run whose rendered fetch of row 1 failed with a driver error and that
\* was interrupted after that row: the session is quit
C19_Witness ==
    /\ bpc = "interrupted"
    /\ session = "quit"
    /\ acquired = 1
    /\ row_index = 2
    /\ rendered = "webdriver_exception"
    /\ sheet[1].img_url \in {TagSelDirect, TagSelRetry}

\* the call and the download of the row ended with an image URL or a tag
\* in the row
RowResolved == bpc = "rows" /\ row_index > 1 /\ Tagged(row_index - 1)

\* C20: every call of get_image_url_from_url, with the download that
\* follows it, ends with a found, not-found or failed outcome for its
\* row, unless the user interrupts the run.
C20_EveryResolutionHasOutcome == (bpc = "in_call") ~> (RowResolved \/ bpc = "interrupted")

\* the loop has just finished the valid row before row_index: the results
\* of its call are still in final_image_url and error_message
RowDone ==
    /\ bpc = "rows"
    /\ row_index > 1
    /\ ValidRow(row_index - 1)
    /\ pc = "returned"
    /\ url = sheet[row_index - 1].url

\* the tags of the image cell (lines 876, 881, 889)
EmbedFailureTags == {TagDownloadFailed, TagFormatError, TagEmbedError}

\* the image cell of row i holds an image of the width asked for and a
\* height of at least 1, or one of the failure tags
EmbeddedOrTagged(i) ==
    \/ /\ IsPrepared(sheet[i].embed)
       /\ sheet[i].embed[2] = DEFAULT_IMAGE_WIDTH
       /\ sheet[i].embed[3] >= 1
    \/ sheet[i].embed \in EmbedFailureTags

\* C21: after a valid row is finished its image URL cell holds the image
\* URL the call returned or, when it returned none, a non-empty error tag;
\* with an image URL the download was called for the row and the image
\* cell holds the image with its width and height or a failure tag; with
\* no image URL the download was not called and the image cell is empty.
C21_RowResult ==
    RowDone =>
        IF Truthy(final_image_url)
        THEN /\ sheet[row_index - 1].img_url = final_image_url
             /\ (row_index - 1) \in downloaded
             /\ EmbeddedOrTagged(row_index - 1)
        ELSE /\ Tagged(row_index - 1)
             /\ sheet[row_index - 1].img_url \in {error_message, TagFetchError}
             /\ (row_index - 1) \notin downloaded
             /\ sheet[row_index - 1].embed = None

\* row 1 resolved to an image that was embedded, row 2 to a not-found tag
C21_Witness ==
    /\ RowDone
    /\ row_index = 3
    /\ IsPrepared(sheet[1].embed)
    /\ downloaded = {1}
    /\ sheet[2].img_url = TagNoDriver

\* ------------------------------------------------------------------------
\* Properties of parse_html_for_image and its extractors applied on their own
\* ------------------------------------------------------------------------
ParseApplied == fn = "parse_html_for_image" /\ Len(out) = 2

\* the host of the final URL, lower-cased
ParseHost == Lower(UrlParse(arg.base_url, "").netloc)

\* the domain substrings in the order of the tests of lines 479-482
SiteSubstrings == <<"okoku.jp", "2ndstreet.jp", "mercari.com", "amazon.">>

\* the index of the first substring that occurs in host, 0 when none does
FirstSite(host) ==
    IF \E i \in 1..4 : Contains(host, <<SiteSubstrings[i]>>)
    THEN CHOOSE i \in 1..4 :
            /\ Contains(host, <<SiteSubstrings[i]>>)
            /\ \A j \in 1..(i - 1) : ~Contains(host, <<SiteSubstrings[j]>>)
    ELSE 0

\* what the site-specific extractor of index k finds on soup
SiteCandidate(k, soup) ==
    CASE k = 1 -> _parse_okoku_image(soup)
      [] k = 2 -> _parse_2ndstreet_image(soup)
      [] k = 3 -> _parse_mercari_image(soup)
      [] k = 4 -> _parse_amazon_image(soup)
      [] OTHER -> None

\* the number of site-specific stages in the list of stages run
RECURSIVE SiteRuns(_)
SiteRuns(stages) ==
    IF stages = <<>> THEN 0
    ELSE (IF stages[1] = "site" THEN 1 ELSE 0) + SiteRuns(Tail(stages))

\* C22: at most one site-specific extractor runs; it is the one of the
\* first of okoku.jp, 2ndstreet.jp, mercari.com, amazon. that occurs in
\* the host of the final URL, and its candidate, when it has one, is what
\* is returned; when no substring occurs no site-specific extractor runs
\* and the cascade starts with the metadata stage.
C22_SiteDispatch ==
    (ParseApplied /\ arg.html_content.kind = "html") =>
        /\ SiteRuns(out[2].stages) <= 1
        /\ FirstSite(ParseHost) # 0 =>
              /\ out[2].stages[1] = "site"
              /\ Truthy(SiteCandidate(FirstSite(ParseHost), arg.html_content)) =>
                    /\ out[2].origin = "site"
                    /\ out[2].image = convert_to_absolute_path(arg.base_url,
                                          SiteCandidate(FirstSite(ParseHost), arg.html_content))
        /\ FirstSite(ParseHost) = 0 =>
              /\ SiteRuns(out[2].stages) = 0
              /\ out[2].stages[1] = "metadata"

\* a host with amazon. and okoku.jp: the okoku.jp extractor ran
C22_Witness ==
    /\ ParseApplied
    /\ arg.html_content = SitePage
    /\ Contains(ParseHost, <<"amazon.">>)
    /\ Contains(ParseHost, <<"okoku.jp">>)
    /\ out[2].image = Cdn(<<"okoku.jpg">>)

\* what the extractor of a stage finds on the page parse_html_for_image
\* was applied to
ParseCandidate(name) ==
    CASE name = "site" -> SiteCandidate(FirstSite(ParseHost), arg.html_content)
      [] name = "metadata" -> _extract_standard_metadata_image(arg.html_content, ParseHost)
      [] name = "jsonld" -> extract_json_ld_image(arg.html_content)
      [] name = "fallback" -> _extract_fallback_image(arg.html_content)

\* a candidate that is an image reference: a non-empty string
IsReference(candidate) == Truthy(candidate) /\ candidate # NonStrList

IsWellFormed(block) == block.t \notin {"absent", "malformed"}

\* C23: the structured-data blocks that cannot be parsed are skipped, the
\* others being examined as if those were not there; an extractor that
\* finds no image reference leaves every later stage to run; and
\* parse_html_for_image never raises.
C23_ExtractorFailuresRecovered ==
    (ParseApplied /\ arg.html_content.kind = "html") =>
        /\ extract_json_ld_image(arg.html_content)
              = JsonLdFrom(SelectSeq(arg.html_content.jsonld, IsWellFormed), 1)
        /\ \A n \in {"metadata", "jsonld", "fallback"} :
              (\A m \in {"site", "metadata", "jsonld"} :
                   StageRank(m) < StageRank(n) => ~IsReference(ParseCandidate(m)))
              => \E k \in 1..Len(out[2].stages) : out[2].stages[k] = n
        /\ ~out[2].raised

MetaApplied == fn = "_extract_standard_metadata_image" /\ out # NotYet

Placeholder == <<"og_logo.png">>

\* the og:image is the placeholder on a denylisted domain
Suppressed == Contains(arg.og, Placeholder) /\ Contains(arg.domain, <<"okoku.jp">>)

\* C24: a non-empty og:image is returned unless it holds og_logo.png on
\* an okoku.jp domain; otherwise the twitter:image is returned when it is
\* non-empty, and nothing when it is not; on every other domain an
\* og:image that holds og_logo.png is returned.
C24_MetadataExtractor ==
    MetaApplied =>
        /\ (Truthy(arg.og) /\ ~Suppressed) => out = arg.og
        /\ (~Truthy(arg.og) \/ Suppressed) => out = (IF Truthy(arg.tw) THEN arg.tw ELSE None)
        /\ (Truthy(arg.og) /\ ~Contains(arg.domain, <<"okoku.jp">>)) => out = arg.og

\* the placeholder name in the og:image of another domain is returned,
\* with a twitter:image at hand
C24_Witness ==
    /\ MetaApplied
    /\ Contains(arg.og, Placeholder)
    /\ ~Contains(arg.domain, <<"okoku.jp">>)
    /\ Truthy(arg.tw)
    /\ out = arg.og

JsonApplied == fn = "find_image_in_json" /\ out # NotYet

\* some node of j is an object whose 'image' key gives an image reference
RECURSIVE HoldsImage(_)
HoldsImage(j) ==
    \/ j.t = "dict" /\ IsReference(ImageProp(j))
    \/ j.t \in {"dict", "list"} /\ \E i \in 1..Len(j.kv) : HoldsImage(j.kv[i][2])

\* C25: at an object the 'image' key is taken first, then an '@graph'
\* list, then the other values in order, a list being searched in order;
\* and the result is empty only if no node of the structure holds an
\* image reference.
C25_FirstImageDepthFirst ==
    JsonApplied =>
        /\ (arg.t = "dict" /\ Truthy(ImageProp(arg))) => out = ImageProp(arg)
        /\ (arg.t = "dict" /\ ~Truthy(ImageProp(arg)) /\ Truthy(GraphImage(arg)))
              => out = GraphImage(arg)
        /\ (arg.t = "list" /\ Len(arg.kv) = 2 /\ Truthy(find_image_in_json(arg.kv[1][2])))
              => out = find_image_in_json(arg.kv[1][2])
        /\ out = None => ~HoldsImage(arg)

\* ------------------------------------------------------------------------
\* The pair returned by get_image_url_from_url
\* ------------------------------------------------------------------------
\* C26: every return of get_image_url_from_url gives an image URL with
\* no error message, or no image URL with a non-empty error message.
C26_ExactlyOneComponent ==
    Returned =>
        \/ Found /\ error_message = None
        \/ final_image_url = None /\ Truthy(error_message)

\* the escalation found an image after the request had failed: the error
\* message of the request was cleared
C26_Witness ==
    /\ Returned
    /\ fetches = <<"requests", "selenium">>
    /\ LightweightFailed
    /\ Found
    /\ error_message = None

====
